---- MODULE Spec2Model ----
(***************************************************************************)
(* Model of the two programs of the repository:                            *)
(*   src/defi_risk_scanner.py  main(): load_rows -> normalize -> score ->  *)
(*                             report                                      *)
(*   src/risk_scanner.py       analyze(code) over the fixed RULES list     *)
(*                                                                         *)
(* Strings are sequences of one-character strings, so that lower(),        *)
(* upper(), the substring test `m in method`, int()/float() parsing and    *)
(* the regular-expression search are computed, not assumed.                *)
(* Floats that the program handles are either integer valued (points,      *)
(* score) or parsed amounts; an amount is held as a whole number of        *)
(* tenths.                                                                 *)
(***************************************************************************)
EXTENDS Integers, Sequences, FiniteSets, TLC

\* ------------------------------------------------------------------ bounds
\* longest raw-record sequence drawn from the alias / malformed-field family
MaxAliasRows == 3
\* longest raw-record sequence drawn from the timestamp family
MaxTimedRows == 5
\* longest raw-record sequence drawn from the transfer-pattern family
MaxPairRows == 6
\* most fragments concatenated into one contract source text
MaxFragments == 3

\* ----------------------------------------------------------------- strings
Uppers == <<"A","B","C","D","E","F","G","H","I","J","K","L","M",
            "N","O","P","Q","R","S","T","U","V","W","X","Y","Z">>
Lowers == <<"a","b","c","d","e","f","g","h","i","j","k","l","m",
            "n","o","p","q","r","s","t","u","v","w","x","y","z">>
DigitChars == <<"0","1","2","3","4","5","6","7","8","9">>

IndexIn(seq, c) == IF \E i \in 1..Len(seq) : seq[i] = c
                   THEN CHOOSE i \in 1..Len(seq) : seq[i] = c
                   ELSE 0

\* str.lower() / str.upper(), character by character
LowerChar(c) == IF IndexIn(Uppers, c) > 0 THEN Lowers[IndexIn(Uppers, c)] ELSE c
UpperChar(c) == IF IndexIn(Lowers, c) > 0 THEN Uppers[IndexIn(Lowers, c)] ELSE c
Lower(s) == [i \in 1..Len(s) |-> LowerChar(s[i])]
Upper(s) == [i \in 1..Len(s) |-> UpperChar(s[i])]

\* Python's `needle in hay` on strings
Contains(hay, needle) ==
    \E k \in 0..(Len(hay) - Len(needle)) :
        \A i \in 1..Len(needle) : hay[k + i] = needle[i]

RECURSIVE Concat(_)
Concat(ss) == IF ss = <<>> THEN <<>> ELSE Head(ss) \o Concat(Tail(ss))

Max(a, b) == IF a >= b THEN a ELSE b
Min(a, b) == IF a <= b THEN a ELSE b

\* --------------------------------------------------- number parsing
IsDigit(c) == IndexIn(DigitChars, c) > 0
DigitVal(c) == IndexIn(DigitChars, c) - 1
IsDigits(s) == Len(s) > 0 /\ \A i \in 1..Len(s) : IsDigit(s[i])

RECURSIVE DigitsVal(_)
DigitsVal(s) == IF s = <<>> THEN 0
                ELSE DigitsVal(SubSeq(s, 1, Len(s) - 1)) * 10 + DigitVal(s[Len(s)])

HasSign(s) == Len(s) > 0 /\ s[1] \in {"+", "-"}
Unsigned(s) == IF HasSign(s) THEN Tail(s) ELSE s
SignOf(s) == IF Len(s) > 0 /\ s[1] = "-" THEN -1 ELSE 1

\* int(str): an optionally signed run of decimal digits
IsIntLit(s) == IsDigits(Unsigned(s))
IntLitVal(s) == SignOf(s) * DigitsVal(Unsigned(s))

DotAt(s) == IndexIn(s, ".")
\* float(str), in tenths: [sign] digits [ "." [digit] ]  or  [sign] "." digit
\* (the input families hold at most one fractional digit, no exponent)
IsFloatLit(s) ==
    LET u == Unsigned(s)
        d == DotAt(u)
        ip == IF d = 0 THEN u ELSE SubSeq(u, 1, d - 1)
        fp == IF d = 0 THEN <<>> ELSE SubSeq(u, d + 1, Len(u))
    IN  /\ Len(u) > 0
        /\ Len(fp) <= 1
        /\ \A i \in 1..Len(ip) : IsDigit(ip[i])
        /\ \A i \in 1..Len(fp) : IsDigit(fp[i])
        /\ Len(ip) + Len(fp) > 0
FloatLitVal(s) ==
    LET u == Unsigned(s)
        d == DotAt(u)
        ip == IF d = 0 THEN u ELSE SubSeq(u, 1, d - 1)
        fp == IF d = 0 THEN <<>> ELSE SubSeq(u, d + 1, Len(u))
    IN  SignOf(s) * (DigitsVal(ip) * 10 + DigitsVal(fp))

\* int(float): truncation toward zero
TruncToInt(f) == IF f >= 0 THEN f \div 10 ELSE -((-f) \div 10)

\* ------------------------------------------------------ raw values
\* a JSON / CSV field value: None, a string or an integer
None == [t |-> "none", s |-> <<>>, n |-> 0]
Str(s) == [t |-> "str", s |-> s, n |-> 0]
Int_(n) == [t |-> "int", s |-> <<>>, n |-> n]

\* Python truthiness of a field value
Truthy(v) == CASE v.t = "none" -> FALSE
               [] v.t = "str" -> v.s # <<>>
               [] v.t = "int" -> v.n # 0

\* Python's `a or b`; OrPresent falls through on None alone
OrPresent(a, b) == IF a.t # "none" THEN a ELSE b
Or(a, b) == IF Truthy(a) THEN a ELSE b

\* dict.get(key)
Get(r, k) == IF k \in DOMAIN r THEN r[k] ELSE None

\* to_int(x, default=0): int(x), else int(float(x)), else default
to_int(x) ==
    CASE x.t = "int" -> x.n
      [] x.t = "str" /\ IsIntLit(x.s) -> IntLitVal(x.s)
      [] x.t = "str" /\ ~IsIntLit(x.s) /\ IsFloatLit(x.s) -> TruncToInt(FloatLitVal(x.s))
      [] OTHER -> 0

\* float(x): the value in tenths, or a raised ValueError / TypeError
FloatRaises(x) == \/ x.t = "none"
                  \/ x.t = "str" /\ ~IsFloatLit(x.s)
FloatOf(x) == IF x.t = "int" THEN x.n * 10 ELSE FloatLitVal(x.s)

\* ------------------------------------------------------- normalize
\* the alias chains of normalize(): r.get(a) or r.get(b) or default
SelHash(r) == Or(Or(Get(r, "hash"), Get(r, "txHash")), Str(<<>>))
SelFrom(r) == Or(Or(Get(r, "from"), Get(r, "src")), Str(<<>>))
SelTo(r) == Or(Or(Get(r, "to"), Get(r, "dst")), Str(<<>>))
SelMethod(r) == Or(Or(Get(r, "method"), Get(r, "functionName")), Str(<<>>))
SelToken(r) == Or(Or(Get(r, "tokenSymbol"), Get(r, "symbol")), Str(<<>>))
SelValue(r) == Or(Or(Get(r, "value"), Get(r, "amount")), Int_(0))
SelTime(r) == Or(Or(Or(Get(r, "timeStamp"), Get(r, "timestamp")), Get(r, "time")), Int_(0))

\* building one canonical record raises when .lower()/.upper() is applied to
\* a value that is not a string (AttributeError) or when float() rejects the
\* amount (ValueError); to_int() never raises
RecordRaises(r) ==
    \/ SelFrom(r).t # "str"
    \/ SelTo(r).t # "str"
    \/ SelMethod(r).t # "str"
    \/ SelToken(r).t # "str"
    \/ FloatRaises(SelValue(r))

\* float(...) or 0.0, a parsed amount that is kept with its sign
CanonValueClamped(r) == Max(0, FloatOf(SelValue(r)))
CanonValue(r) == IF FloatOf(SelValue(r)) # 0 THEN FloatOf(SelValue(r)) ELSE 0

\* the dict literal appended to `out` (value in tenths)
Canonical(r) ==
    [hash |-> SelHash(r),
     from |-> Lower(SelFrom(r).s),
     to |-> Lower(SelTo(r).s),
     method |-> Lower(SelMethod(r).s),
     token |-> Upper(SelToken(r).s),
     value |-> CanonValue(r),
     time |-> to_int(SelTime(r))]

\* list.sort(key=time): a stable sort; an element goes behind every element
\* whose key is not greater
InsertBeforeEqual(sorted, x) ==
    LET k == Cardinality({i \in 1..Len(sorted) : sorted[i].time < x.time})
    IN  SubSeq(sorted, 1, k) \o <<x>> \o SubSeq(sorted, k + 1, Len(sorted))
InsertByTime(sorted, x) ==
    LET k == Cardinality({i \in 1..Len(sorted) : sorted[i].time <= x.time})
    IN  SubSeq(sorted, 1, k) \o <<x>> \o SubSeq(sorted, k + 1, Len(sorted))

RECURSIVE SortByTime(_)
SortByTime(seq) ==
    IF seq = <<>> THEN <<>>
    ELSE InsertByTime(SortByTime(SubSeq(seq, 1, Len(seq) - 1)), seq[Len(seq)])

NormalizeRaises(raw) == \E i \in 1..Len(raw) : RecordRaises(raw[i])
Normalize(raw) == SortByTime([i \in 1..Len(raw) |-> Canonical(raw[i])])

\* ----------------------------------------------------------- score
SUS_METHODS == {<<"p","e","r","m","i","t">>,
                <<"i","n","c","r","e","a","s","e","a","l","l","o","w","a","n","c","e">>,
                <<"s","e","t","a","p","p","r","o","v","a","l","f","o","r","a","l","l">>,
                <<"p","e","r","m","i","t","2">>}
MIXERS == {<<"0","x","5","a","c","e",".",".",".">>,
           <<"0","x","1","1","1","1",".",".",".">>}
PHISHING_TOKENS == {<<"F","A","K","E">>, <<"S","C","A","M">>}

\* the weights of the heuristics
MixerPoints == 35
ApprovalCap == 25
ApprovalStep == 5
BurstPoints == 10
BurstFloor == 10
BurstMin == 3
TokenPoints == 10
WashPoints == 15
WashMin == 3
ColdPoints == 10
ColdWindow == 2592000
EmptyScore == 10

Flag(kind, n, a, b) == [kind |-> kind, n |-> n, a |-> a, b |-> b]
NoStr == <<>>

Indices(rs) == 1..Len(rs)

\* `if not rows`
AtMostOneRow(rs) == Len(rs) <= 1
HasNoHistory(rs) == rs = <<>>

\* 1) from_mixers
FromMixers(rs, a) == {i \in Indices(rs) : rs[i].from \in MIXERS /\ rs[i].to = a}

\* 2) approvals
IsSensitive(method) == \E m \in SUS_METHODS : Contains(method, m)
Approvals(rs, a) == Cardinality({i \in Indices(rs) : rs[i].from = a /\ IsSensitive(rs[i].method)})
ApprovalPoints(n) == Min(ApprovalCap, n * ApprovalStep)

\* 3) gaps between consecutive records
Gaps(rs) == [i \in 1..(Len(rs) - 1) |-> rs[i + 1].time - rs[i].time]

InsertInt(sorted, x) ==
    LET k == Cardinality({i \in 1..Len(sorted) : sorted[i] <= x})
    IN  SubSeq(sorted, 1, k) \o <<x>> \o SubSeq(sorted, k + 1, Len(sorted))
RECURSIVE Sorted(_)
Sorted(seq) == IF seq = <<>> THEN <<>>
               ELSE InsertInt(Sorted(SubSeq(seq, 1, Len(seq) - 1)), seq[Len(seq)])

\* statistics.quantiles(gaps, n=4)[0], exclusive method, times 4 (the
\* division by 4 is left to the comparison); needs two data points
Q1Times4(gaps) ==
    LET data == Sorted(gaps)
        ld == Len(data)
        m == ld + 1
        j0 == m \div 4
        j == IF j0 < 1 THEN 1 ELSE IF j0 > ld - 1 THEN ld - 1 ELSE j0
        delta == m - j * 4
    IN  data[j] * (4 - delta) + data[j + 1] * delta

\* g <= max(10, q1/5) with q1 = q1x4 / 4
IsBurst(g, q1x4) == g <= BurstFloor \/ g * 20 <= q1x4
Bursts(gaps, q1x4) == Cardinality({i \in 1..Len(gaps) : IsBurst(gaps[i], q1x4)})
BurstTriggers(n) == n >= BurstMin

\* 4) bad_tokens
BadTokens(rs, a) == {i \in Indices(rs) : rs[i].token \in PHISHING_TOKENS /\ rs[i].to = a}

\* 5) pair_counts, a Counter: iterated in order of first insertion
Pair(rs, i) == <<rs[i].from, rs[i].to>>
PairCount(rs, p) == Cardinality({i \in Indices(rs) : Pair(rs, i) = p})
FirstSeen(rs) == {i \in Indices(rs) : \A j \in 1..(i - 1) : Pair(rs, j) # Pair(rs, i)}
WashAnyPair(rs, a, p) ==
    /\ PairCount(rs, p) >= WashMin
    /\ PairCount(rs, <<p[2], p[1]>>) >= WashMin
WashQualifies(rs, a, p) ==
    /\ (p[1] = a \/ p[2] = a)
    /\ PairCount(rs, p) >= WashMin
    /\ PairCount(rs, <<p[2], p[1]>>) >= WashMin
WashHits(rs, a) == {i \in FirstSeen(rs) : WashQualifies(rs, a, Pair(rs, i))}
\* the loop breaks at the first hit
WashFirst(rs, a) == CHOOSE i \in WashHits(rs, a) : \A k \in WashHits(rs, a) : i <= k

\* 6) recent
Recent(rs) == {i \in Indices(rs) : rs[Len(rs)].time - rs[i].time < ColdWindow}
ColdAdjust(p) == Max(0, p - ColdPoints)

\* round(max(0.0, min(100.0, points)), 2); points is integer valued.
\* ClampScaled rounds by scaling to hundredths and does not scale back
ClampScaled(p) == Max(0, Min(100, p)) * 100
Clamp(p) == Max(0, Min(100, p))

\* iso(ts): the ISO form of the instant.  The str(ts) fallback needs a year
\* outside 1..9999, a timestamp beyond the 32-bit integers the model holds
Iso(ts) == [fmt |-> "iso", ts |-> ts]
NoTx == [fmt |-> "none", ts |-> 0]

\* ------------------------------------------------------- analyze
\* RULES, in declaration order; "." in a regex is any character but newline
RULES == <<
    [id |-> "reentrancy", regex |-> <<"c","a","l","l",".","v","a","l","u","e">>,
     weight |-> 30, desc |-> "Potential reentrancy (call.value)"],
    [id |-> "selfdestruct", regex |-> <<"s","e","l","f","d","e","s","t","r","u","c","t">>,
     weight |-> 40, desc |-> "Contract selfdestruct"],
    [id |-> "delegatecall", regex |-> <<"d","e","l","e","g","a","t","e","c","a","l","l">>,
     weight |-> 25, desc |-> "Delegatecall detected"] >>

\* one pattern character against one text character under re.IGNORECASE;
\* CharMatchesCase is the search without the flag
CharMatchesCase(p, c) == IF p = "." THEN c # "\n" ELSE p = c
CharMatches(p, c) == IF p = "." THEN c # "\n" ELSE LowerChar(p) = LowerChar(c)

\* re.search(regex, text, re.IGNORECASE) for a pattern of literals and "."
Search(regex, text) ==
    \E k \in 0..(Len(text) - Len(regex)) :
        \A i \in 1..Len(regex) : CharMatches(regex[i], text[k + i])

\* ------------------------------------------------------------ inputs
T_arg == <<"0","x","A","b">>
T_up == <<"0","x","A","B">>
T_low == <<"0","x","a","b">>
B_low == <<"0","x","c","d">>
B_up == <<"0","x","C","D">>
C_arg == <<"0","x","E","F">>
MixerUp == <<"0","x","5","A","C","E",".",".",".">>

\* transfer-pattern family: an approval sent by 0xab, a phishing token
\* received by 0xab (secondary aliases), an inflow from a mixer
PairKinds == {
    [from |-> Str(T_up), to |-> Str(B_low), method |-> Str(<<"P","e","r","m","i","t">>)],
    [src |-> Str(B_up), dst |-> Str(T_low), symbol |-> Str(<<"f","a","k","e">>)],
    [from |-> Str(MixerUp), to |-> Str(T_arg)] }

\* timestamp family: 0, "10", "21.5" and 2592021 under the three aliases
TimedKinds == {
    [from |-> Str(B_low), to |-> Str(T_low), timeStamp |-> Int_(0)],
    [from |-> Str(B_low), to |-> Str(T_low), timestamp |-> Str(<<"1","0">>)],
    [from |-> Str(B_low), to |-> Str(T_low), time |-> Str(<<"2","1",".","5">>)],
    [from |-> Str(B_low), to |-> Str(T_low), timeStamp |-> Int_(2592021)] }

\* alias / malformed-field family
AliasKinds == {
    \* primary aliases, well formed
    [hash |-> Str(<<"h","1">>), from |-> Str(T_up), to |-> Str(B_up),
     method |-> Str(<<"T","r","a","n","s","f","e","r">>),
     tokenSymbol |-> Str(<<"u","s","d","c">>),
     value |-> Str(<<"1",".","5">>), timeStamp |-> Str(<<"2","1">>)],
    \* secondary aliases only
    [txHash |-> Str(<<"h","2">>), src |-> Str(B_up), dst |-> Str(T_up),
     functionName |-> Str(<<"I","n","c","r","e","a","s","e","A","l","l","o","w","a","n","c","e">>),
     symbol |-> Str(<<"S","c","a","m">>),
     amount |-> Int_(7), timestamp |-> Int_(10)],
    \* both aliases present, the first one non-empty
    [from |-> Str(T_up), src |-> Str(B_up), to |-> Str(B_low), dst |-> Str(T_low),
     value |-> Int_(3), amount |-> Int_(9), timeStamp |-> Int_(5), time |-> Int_(99)],
    \* both aliases present, the first one empty or zero
    [from |-> Str(<<>>), src |-> Str(B_up), to |-> Str(T_low),
     value |-> Int_(0), amount |-> Int_(9), timeStamp |-> Int_(0), time |-> Str(<<"1","0">>)],
    \* amount that is not a number
    [from |-> Str(B_low), to |-> Str(T_low), value |-> Str(<<"a","b","c">>)],
    \* timestamp that is not a number
    [from |-> Str(B_low), to |-> Str(T_low), value |-> Str(<<"2">>),
     timeStamp |-> Str(<<"a","b","c">>)],
    \* negative amount
    [from |-> Str(B_low), to |-> Str(T_low), value |-> Str(<<"-","3">>),
     timeStamp |-> Str(<<"-","4">>)],
    \* JSON null amount, second alias set
    [from |-> Str(B_low), to |-> Str(T_low), value |-> None, amount |-> Str(<<"4">>)],
    \* an address that is a number, not a string
    [from |-> Int_(5), to |-> Str(T_low)],
    \* no known field at all
    [gas |-> Int_(1)] }

SeqsUpTo(S, n) == UNION {[1..k -> S] : k \in 0..n}

WalletInputs ==
    {[rows |-> r, address |-> a] : r \in SeqsUpTo(PairKinds, MaxPairRows), a \in {T_arg, C_arg}}
    \cup {[rows |-> r, address |-> T_arg] : r \in SeqsUpTo(TimedKinds, MaxTimedRows)}
    \cup {[rows |-> r, address |-> T_arg] : r \in SeqsUpTo(AliasKinds, MaxAliasRows)}

Fragments == {
    <<"s","e","l","f","d","e","s","t","r","u","c","t","(">>,
    <<"S","e","l","f">>,
    <<"D","e","s","t","r","u","c","t">>,
    <<"D","E","L","E","G","A","T","E","C","A","L","L">>,
    <<"d","e","l","e","g","a","t","e">>,
    <<"c","a","l","l",".","v","a","l","u","e">>,
    <<"C","a","l","l","\n","V","a","l","u","e">>,
    <<"c","a","l","l","{","v","a","l","u","e",":">> }

Codes == {Concat(fs) : fs \in SeqsUpTo(Fragments, MaxFragments)}

\* ------------------------------------------------------------- state
VARIABLES
    pc,        \* position of the running program
    rows_raw,  \* main(): what load_rows returned
    address,   \* main(): args.address
    rows,      \* main() / score(): the normalized records
    addr,      \* score(): the lower-cased target
    points,    \* score(): the accumulator
    flags,     \* score(): the flags so far; main(): the flags returned
    s,         \* main(): the score returned
    report,    \* main(): the report written
    error,     \* the exception that ended the program, "" for none
    code,      \* analyze(): the text
    rule_i,    \* analyze(): index of the next rule of the loop
    risk,      \* analyze(): the sum so far
    reasons,   \* analyze(): the descriptions so far
    result     \* analyze(): the returned dict

vars == <<pc, rows_raw, address, rows, addr, points, flags, s, report, error,
          code, rule_i, risk, reasons, result>>

walletVars == <<rows_raw, address, rows, addr, points, flags, s, report>>
scannerVars == <<code, rule_i, risk, reasons, result>>

NoReport == [address |-> <<>>, score |-> -1, flags |-> <<>>, total_txs |-> -1, last_tx |-> NoTx]
NoResult == [risk |-> -1, reasons |-> <<>>]

InitWallet ==
    /\ pc = "normalize"
    /\ \E in \in WalletInputs : rows_raw = in.rows /\ address = in.address
    /\ rows = <<>> /\ addr = <<>> /\ points = 0 /\ flags = <<>> /\ s = -1
    /\ report = NoReport /\ error = ""
    /\ code = <<>> /\ rule_i = 1 /\ risk = 0 /\ reasons = <<>> /\ result = NoResult

InitScanner ==
    /\ pc = "analyze"
    /\ code \in Codes
    /\ rule_i = 1 /\ risk = 0 /\ reasons = <<>> /\ result = NoResult
    /\ rows_raw = <<>> /\ address = <<>> /\ rows = <<>> /\ addr = <<>>
    /\ points = 0 /\ flags = <<>> /\ s = -1 /\ report = NoReport /\ error = ""

Init == InitWallet \/ InitScanner

\* rows = normalize(rows_raw, args.address)
NormalizeCall ==
    /\ pc = "normalize"
    /\ IF NormalizeRaises(rows_raw)
       THEN /\ pc' = "raised"
            /\ error' = "normalize"
            /\ rows' = rows
       ELSE /\ pc' = "score"
            /\ error' = error
            /\ rows' = Normalize(rows_raw)
    /\ UNCHANGED <<rows_raw, address, addr, points, flags, s, report>>
    /\ UNCHANGED scannerVars

\* score(): lines 63-68
ScoreEnter ==
    /\ pc = "score"
    /\ addr' = Lower(address)
    /\ IF HasNoHistory(rows)
       THEN /\ s' = EmptyScore
            /\ flags' = <<Flag("no history", 0, NoStr, NoStr)>>
            /\ points' = 0
            /\ pc' = "report"
       ELSE /\ s' = s
            /\ flags' = <<>>
            /\ points' = 0
            /\ pc' = "mixer"
    /\ UNCHANGED <<rows_raw, address, rows, report, error>>
    /\ UNCHANGED scannerVars

\* 1) lines 71-74
MixerStep ==
    /\ pc = "mixer"
    /\ LET n == Cardinality(FromMixers(rows, addr))
       IN  IF n > 0
           THEN /\ flags' = Append(flags, Flag("received from known mixer", n, NoStr, NoStr))
                /\ points' = points + MixerPoints
           ELSE UNCHANGED <<flags, points>>
    /\ pc' = "approvals"
    /\ UNCHANGED <<rows_raw, address, rows, addr, s, report, error>>
    /\ UNCHANGED scannerVars

\* 2) lines 77-80
ApprovalsStep ==
    /\ pc = "approvals"
    /\ LET n == Approvals(rows, addr)
       IN  IF n > 0
           THEN /\ points' = points + ApprovalPoints(n)
                /\ flags' = Append(flags, Flag("sensitive approvals", n, NoStr, NoStr))
           ELSE UNCHANGED <<flags, points>>
    /\ pc' = "bursts"
    /\ UNCHANGED <<rows_raw, address, rows, addr, s, report, error>>
    /\ UNCHANGED scannerVars

\* the rest of the burst heuristic once q1 is known, lines 86-89
BurstCount(q1x4) ==
    LET n == Bursts(Gaps(rows), q1x4)
    IN  /\ IF BurstTriggers(n)
           THEN /\ flags' = Append(flags, Flag("bot-like bursts", n, NoStr, NoStr))
                /\ points' = points + BurstPoints
           ELSE UNCHANGED <<flags, points>>
        /\ pc' = "tokens"
        /\ error' = error

\* 3) lines 83-89.  statistics.quantiles() of a single data point raises
\* StatisticsError up to Python 3.12 and returns that point from 3.13 on:
\* both outcomes are modelled
BurstStep ==
    /\ pc = "bursts"
    /\ \/ /\ Len(Gaps(rows)) = 0
          /\ pc' = "tokens"
          /\ UNCHANGED <<flags, points, error>>
       \/ /\ Len(Gaps(rows)) = 1
          /\ pc' = "raised"
          /\ error' = "StatisticsError"
          /\ UNCHANGED <<flags, points>>
       \/ /\ Len(Gaps(rows)) = 1
          /\ BurstCount(4 * Gaps(rows)[1])
       \/ /\ Len(Gaps(rows)) >= 2
          /\ BurstCount(Q1Times4(Gaps(rows)))
    /\ UNCHANGED <<rows_raw, address, rows, addr, s, report>>
    /\ UNCHANGED scannerVars

\* 4) lines 92-95
TokensStep ==
    /\ pc = "tokens"
    /\ LET n == Cardinality(BadTokens(rows, addr))
       IN  IF n > 0
           THEN /\ flags' = Append(flags, Flag("received suspicious tokens", n, NoStr, NoStr))
                /\ points' = points + TokenPoints
           ELSE UNCHANGED <<flags, points>>
    /\ pc' = "wash"
    /\ UNCHANGED <<rows_raw, address, rows, addr, s, report, error>>
    /\ UNCHANGED scannerVars

\* 5) lines 98-105
WashStep ==
    /\ pc = "wash"
    /\ IF WashHits(rows, addr) # {}
       THEN LET p == Pair(rows, WashFirst(rows, addr))
            IN  /\ flags' = Append(flags, Flag("wash-like transfers", 0, p[1], p[2]))
                /\ points' = points + WashPoints
       ELSE UNCHANGED <<flags, points>>
    /\ pc' = "cold"
    /\ UNCHANGED <<rows_raw, address, rows, addr, s, report, error>>
    /\ UNCHANGED scannerVars

\* 6) lines 108-111
ColdStep ==
    /\ pc = "cold"
    /\ IF Recent(rows) = {}
       THEN /\ flags' = Append(flags, Flag("no recent activity (cold wallet)", 0, NoStr, NoStr))
            /\ points' = ColdAdjust(points)
       ELSE UNCHANGED <<flags, points>>
    /\ pc' = "return"
    /\ UNCHANGED <<rows_raw, address, rows, addr, s, report, error>>
    /\ UNCHANGED scannerVars

\* lines 114-115
ScoreReturn ==
    /\ pc = "return"
    /\ s' = Clamp(points)
    /\ pc' = "report"
    /\ UNCHANGED <<rows_raw, address, rows, addr, points, flags, report, error>>
    /\ UNCHANGED scannerVars

\* main(): lines 122-130
Report ==
    /\ pc = "report"
    /\ report' = [address |-> address, score |-> s, flags |-> flags,
                  total_txs |-> Len(rows),
                  last_tx |-> IF rows # <<>> THEN Iso(rows[Len(rows)].time) ELSE NoTx]
    /\ pc' = "done"
    /\ UNCHANGED <<rows_raw, address, rows, addr, points, flags, s, error>>
    /\ UNCHANGED scannerVars

\* analyze(): one iteration of the loop over RULES
AnalyzeRule ==
    /\ pc = "analyze"
    /\ rule_i <= Len(RULES)
    /\ IF Search(RULES[rule_i].regex, code)
       THEN /\ risk' = risk + RULES[rule_i].weight
            /\ reasons' = Append(reasons, RULES[rule_i].desc)
       ELSE UNCHANGED <<risk, reasons>>
    /\ rule_i' = rule_i + 1
    /\ UNCHANGED <<pc, code, result, error>>
    /\ UNCHANGED walletVars

\* analyze(): return {"risk": risk, "reasons": reasons}
AnalyzeReturn ==
    /\ pc = "analyze"
    /\ rule_i > Len(RULES)
    /\ result' = [risk |-> risk, reasons |-> reasons]
    /\ pc' = "analyzed"
    /\ UNCHANGED <<code, rule_i, risk, reasons, error>>
    /\ UNCHANGED walletVars

Next ==
    \/ NormalizeCall
    \/ ScoreEnter
    \/ MixerStep
    \/ ApprovalsStep
    \/ BurstStep
    \/ TokensStep
    \/ WashStep
    \/ ColdStep
    \/ ScoreReturn
    \/ Report
    \/ AnalyzeRule
    \/ AnalyzeReturn

Spec == Init /\ [][Next]_vars

\* ------------------------------------------------------------ properties
\* normalize() has just returned: rows holds its result, rows_raw its input
AfterNormalize == pc = "score"

\* score() has returned: s and flags hold its result
AfterScore == pc \in {"report", "done"}

HasFlag(fs, kind) == \E i \in 1..Len(fs) : fs[i].kind = kind
FlagCount(fs, kind) == Cardinality({i \in 1..Len(fs) : fs[i].kind = kind})

\* the place a stable sort by time gives raw record k: behind every record
\* of smaller time and every earlier record of the same time
Canon(raw) == [k \in Indices(raw) |-> Canonical(raw[k])]
StableRank(cs, k) ==
    1 + Cardinality({j \in Indices(cs) : cs[j].time < cs[k].time})
      + Cardinality({j \in 1..(k - 1) : cs[j].time = cs[k].time})
\* the normalized record that stands for raw record k
RowOf(cs, k) == rows[StableRank(cs, k)]

\* the first alias of `keys` that the record holds at all / holds with a
\* non-empty, non-zero, non-null value
FirstPresent(r, keys, default) ==
    LET hits == {i \in 1..Len(keys) : keys[i] \in DOMAIN r}
    IN  IF hits = {} THEN default
        ELSE r[keys[CHOOSE i \in hits : \A j \in hits : i <= j]]
FirstTruthy(r, keys, default) ==
    LET hits == {i \in 1..Len(keys) : keys[i] \in DOMAIN r /\ Truthy(r[keys[i]])}
    IN  IF hits = {} THEN default
        ELSE r[keys[CHOOSE i \in hits : \A j \in hits : i <= j]]

HashKeys == <<"hash", "txHash">>
FromKeys == <<"from", "src">>
ToKeys == <<"to", "dst">>
MethodKeys == <<"method", "functionName">>
TokenKeys == <<"tokenSymbol", "symbol">>
ValueKeys == <<"value", "amount">>
TimeKeys == <<"timeStamp", "timestamp", "time">>

NoUpperCase(str) == \A i \in 1..Len(str) : IndexIn(Uppers, str[i]) = 0
NoLowerCase(str) == \A i \in 1..Len(str) : IndexIn(Lowers, str[i]) = 0

\* C1: at the dormancy step, when the latest record is at least 2,592,000 s
\* after every other record (a single record included), the cold-wallet flag
\* is added and the points become max(0, P - 10).
Dormant(rs) ==
    /\ rs # <<>>
    /\ \A i \in 1..(Len(rs) - 1) : rs[Len(rs)].time - rs[i].time >= 2592000
C1_DormancyFlagged ==
    [][(pc = "cold" /\ Dormant(rows))
        => /\ HasFlag(flags', "no recent activity (cold wallet)")
           /\ points' = Max(0, points - 10)]_vars

\* C2: normalize() never raises because of an amount or a timestamp that is
\* not a number, and such a field becomes the default (0.0, 0).
BadNumber(v) == v.t = "str" /\ ~IsIntLit(v.s) /\ ~IsFloatLit(v.s)
StringFieldsAreStrings(r) ==
    \A keys \in {FromKeys, ToKeys, MethodKeys, TokenKeys} :
        FirstTruthy(r, keys, Str(<<>>)).t = "str"
C2_MalformedNumbersDegrade ==
    /\ (pc = "raised" /\ error = "normalize")
        => \E k \in Indices(rows_raw) : ~StringFieldsAreStrings(rows_raw[k])
    /\ AfterNormalize =>
        LET cs == Canon(rows_raw)
        IN  \A k \in Indices(rows_raw) :
                /\ BadNumber(FirstTruthy(rows_raw[k], TimeKeys, Int_(0)))
                    => RowOf(cs, k).time = 0
                /\ BadNumber(FirstTruthy(rows_raw[k], ValueKeys, Int_(0)))
                    => RowOf(cs, k).value = 0

\* C3: the score that score() returns, and the one reported, lies in 0..100.
C3_ScoreInRange ==
    /\ AfterScore => (s >= 0 /\ s <= 100)
    /\ pc = "done" => (report.score >= 0 /\ report.score <= 100)
\* four heuristics triggered on one input
C3_Witness ==
    /\ pc = "done"
    /\ Len(report.flags) >= 4
    /\ report.score >= 50

ShapeOfStrings(r) ==
    /\ NoUpperCase(r.from)
    /\ NoUpperCase(r.to)
    /\ NoUpperCase(r.method)
    /\ NoLowerCase(r.token)
    /\ r.time \in Int
C5_CanonicalShape ==
    AfterNormalize =>
        \A i \in Indices(rows) : ShapeOfStrings(rows[i]) /\ rows[i].value >= 0

\* C5 (amended): every normalized record has lower-cased from, to and
\* method, an upper-cased token and an integer time; its value keeps the
\* sign of the raw amount: it is >= 0 exactly when the raw amount is not a
\* negative number.
NegativeAmount(v) ==
    \/ v.t = "int" /\ v.n < 0
    \/ /\ v.t = "str"
       /\ Len(v.s) > 0
       /\ v.s[1] = "-"
       /\ \E i \in 2..Len(v.s) : v.s[i] \in {"1","2","3","4","5","6","7","8","9"}
C5_ShapeKeepsSign ==
    AfterNormalize =>
        /\ \A i \in Indices(rows) : ShapeOfStrings(rows[i])
        /\ LET cs == Canon(rows_raw)
           IN  \A k \in Indices(rows_raw) :
                 (RowOf(cs, k).value >= 0)
                   <=> ~NegativeAmount(FirstTruthy(rows_raw[k], ValueKeys, Int_(0)))
\* a negative raw amount and mixed-case strings went through normalize()
C5_Witness ==
    /\ pc = "score"
    /\ \E i \in Indices(rows) : rows[i].value < 0
    /\ \E k \in Indices(rows_raw) :
          /\ "from" \in DOMAIN rows_raw[k]
          /\ rows_raw[k]["from"].t = "str"
          /\ ~NoUpperCase(rows_raw[k]["from"].s)
    /\ \E k \in Indices(rows_raw) :
          /\ "tokenSymbol" \in DOMAIN rows_raw[k]
          /\ ~NoLowerCase(rows_raw[k]["tokenSymbol"].s)

\* C6: the wash step adds exactly one "wash-like transfers" flag and 15
\* points when some pair (a,b) with a or b the lower-cased target has
\* count(a,b) >= 3 and count(b,a) >= 3, and nothing otherwise; no other
\* step adds such a flag.
TransferCount(rs, a, b) == Cardinality({i \in Indices(rs) : rs[i].from = a /\ rs[i].to = b})
WashPairs(rs, target) ==
    {p \in {<<rs[i].from, rs[i].to>> : i \in Indices(rs)} :
        /\ (p[1] = target \/ p[2] = target)
        /\ TransferCount(rs, p[1], p[2]) >= 3
        /\ TransferCount(rs, p[2], p[1]) >= 3}
C6_WashOnce ==
    [][/\ pc = "wash" =>
            LET hit == WashPairs(rows, Lower(address)) # {}
            IN  /\ FlagCount(flags, "wash-like transfers") = 0
                /\ FlagCount(flags', "wash-like transfers") = (IF hit THEN 1 ELSE 0)
                /\ Len(flags') = Len(flags) + (IF hit THEN 1 ELSE 0)
                /\ points' = points + (IF hit THEN 15 ELSE 0)
       /\ pc # "wash" =>
            FlagCount(flags', "wash-like transfers") = FlagCount(flags, "wash-like transfers")
      ]_vars
\* the wash step has run on an input where two pairs qualify
C6_Witness ==
    /\ pc = "cold"
    /\ Cardinality(WashPairs(rows, addr)) >= 2
    /\ FlagCount(flags, "wash-like transfers") = 1

\* C7 (as claimed): a text that holds "selfdestruct" and "delegatecall" in
\* any letter case gives risk = 65 and the selfdestruct description before
\* the delegatecall description.
HoldsBoth(text) ==
    /\ Contains(Lower(text), <<"s","e","l","f","d","e","s","t","r","u","c","t">>)
    /\ Contains(Lower(text), <<"d","e","l","e","g","a","t","e","c","a","l","l">>)
C7_BothGive65 ==
    (pc = "analyzed" /\ HoldsBoth(code)) =>
        /\ result.risk = 65
        /\ \E i, j \in 1..Len(result.reasons) :
              /\ i < j
              /\ result.reasons[i] = "Contract selfdestruct"
              /\ result.reasons[j] = "Delegatecall detected"

\* C7 (amended): such a text gives risk = 65 and exactly the two
\* descriptions in that order when it does not also match call.value, and
\* risk = 95 with the reentrancy description in front when it does.
HoldsCallValue(text) ==
    \E k \in 0..(Len(text) - 10) :
        /\ Lower(SubSeq(text, k + 1, k + 4)) = <<"c","a","l","l">>
        /\ text[k + 5] # "\n"
        /\ Lower(SubSeq(text, k + 6, k + 10)) = <<"v","a","l","u","e">>
C7_BothGive65Or95 ==
    (pc = "analyzed" /\ HoldsBoth(code)) =>
        IF HoldsCallValue(code)
        THEN /\ result.risk = 95
             /\ result.reasons = <<"Potential reentrancy (call.value)",
                                   "Contract selfdestruct", "Delegatecall detected">>
        ELSE /\ result.risk = 65
             /\ result.reasons = <<"Contract selfdestruct", "Delegatecall detected">>
\* analyze() returned 65 for a text holding both words, one of them in
\* capitals
C7_Witness ==
    /\ pc = "analyzed"
    /\ HoldsBoth(code)
    /\ ~HoldsCallValue(code)
    /\ Contains(code, <<"D","E","L","E","G","A","T","E","C","A","L","L">>)
    /\ result.risk = 65

\* C8: score() of an empty sequence returns (10.0, ["no history"]) with no
\* heuristic run, and "no history" is returned for no other input.
C8_EmptyHistory ==
    /\ (AfterScore /\ rows = <<>>) =>
          /\ s = 10
          /\ flags = <<Flag("no history", 0, NoStr, NoStr)>>
          /\ points = 0
    /\ HasFlag(flags, "no history") => rows = <<>>
    /\ (pc = "done" /\ HasFlag(report.flags, "no history")) => report.total_txs = 0
    /\ pc \in {"mixer", "approvals", "bursts", "tokens", "wash", "cold", "return"}
          => rows # <<>>
\* the empty sequence has been scored
C8_Witness ==
    /\ pc = "report"
    /\ rows = <<>>
    /\ rows_raw = <<>>
    /\ HasFlag(flags, "no history")

\* C9: with two or more records the burst step computes Q1 and goes on
\* without raising, adding 10 points and the "bot-like bursts" flag exactly
\* when at least 3 gaps g have g <= max(10, Q1/5); with fewer than two
\* records it changes nothing.
GapQ1Times4(gaps) == IF Len(gaps) = 1 THEN 4 * gaps[1] ELSE Q1Times4(gaps)
BurstGaps(gaps) ==
    Cardinality({i \in 1..Len(gaps) :
        gaps[i] <= 10 \/ 20 * gaps[i] <= GapQ1Times4(gaps)})
C9_BurstNeverRaises ==
    [][pc = "bursts" =>
        /\ pc' = "tokens"
        /\ IF Len(rows) >= 2 /\ BurstGaps(Gaps(rows)) >= 3
           THEN /\ points' = points + 10
                /\ HasFlag(flags', "bot-like bursts")
           ELSE /\ points' = points
                /\ flags' = flags
      ]_vars

\* C10 (as claimed): each canonical field comes from the first alias that
\* is present in the raw record, whatever it holds.
Pick(r, keys, default, truthy) ==
    IF truthy THEN FirstTruthy(r, keys, default) ELSE FirstPresent(r, keys, default)
FromAliases(c, r, t) ==
    /\ c.hash = Pick(r, HashKeys, Str(<<>>), t)
    /\ c.from = Lower(Pick(r, FromKeys, Str(<<>>), t).s)
    /\ c.to = Lower(Pick(r, ToKeys, Str(<<>>), t).s)
    /\ c.method = Lower(Pick(r, MethodKeys, Str(<<>>), t).s)
    /\ c.token = Upper(Pick(r, TokenKeys, Str(<<>>), t).s)
    /\ c.value = FloatOf(Pick(r, ValueKeys, Int_(0), t))
    /\ c.time = to_int(Pick(r, TimeKeys, Int_(0), t))
C10_FirstPresentAlias ==
    AfterNormalize =>
        LET cs == Canon(rows_raw)
        IN  \A k \in Indices(rows_raw) : FromAliases(RowOf(cs, k), rows_raw[k], FALSE)

\* C10 (amended): each canonical field comes from the first alias whose
\* value is non-empty, non-zero and not null; an alias that is present but
\* empty or zero is passed over for the next one.
C10_FirstTruthyAlias ==
    AfterNormalize =>
        LET cs == Canon(rows_raw)
        IN  \A k \in Indices(rows_raw) : FromAliases(RowOf(cs, k), rows_raw[k], TRUE)
\* a record whose "from" is present and empty and whose "src" is set went
\* through normalize()
C10_Witness ==
    /\ pc = "score"
    /\ \E k \in Indices(rows_raw) :
          /\ "from" \in DOMAIN rows_raw[k]
          /\ "src" \in DOMAIN rows_raw[k]
          /\ ~Truthy(rows_raw[k]["from"])
          /\ Truthy(rows_raw[k]["src"])
          /\ RowOf(Canon(rows_raw), k).from = Lower(rows_raw[k]["src"].s)

====
